---- MODULE Spec2Model ----
(***************************************************************************)
(* Validating parsers of backend/src/models: Auth, Device, NodeEdgePoint   *)
(* and Link, each turning a serde_json Value into a typed record or an     *)
(* Error::Custom(message).                                                 *)
(*                                                                         *)
(* JSON values are tagged records; strings are sequences of one-character  *)
(* strings so that UUID text can be parsed character by character.         *)
(***************************************************************************)
EXTENDS Integers, Sequences, FiniteSets, TLC

\* ------------------------------------------------------------------------
\* Bounds of the model
\* ------------------------------------------------------------------------
MaxElems == 2        \* longest `node-edge-point` array drawn as input
MaxClock == 2        \* the wall clock takes the values 0..MaxClock
MaxKeptElems == 1    \* longest array of an input whose Link is kept for comparison

\* ------------------------------------------------------------------------
\* Option and Result
\* ------------------------------------------------------------------------
None == << >>
Some(x) == << x >>
IsSome(o) == o # << >>
Unwrap(o) == o[1]

Ok(x) == [ok |-> TRUE, val |-> x]
Err(msg) == [ok |-> FALSE, err |-> msg]

\* ------------------------------------------------------------------------
\* serde_json::Value
\* ------------------------------------------------------------------------
Null == [t |-> "null"]
Bool(b) == [t |-> "bool", b |-> b]
Str(s) == [t |-> "str", s |-> s]
Arr(a) == [t |-> "arr", a |-> a]
Obj(m) == [t |-> "obj", m |-> m]

\* Numbers keep serde_json's three kinds.  A magnitude is four 16-bit limbs,
\* most significant first, so that the whole u64 range is representable.
PosInt(mag) == [t |-> "num", k |-> "PosInt", mag |-> mag, frac |-> 0]
NegInt(mag) == [t |-> "num", k |-> "NegInt", mag |-> mag, frac |-> 0]
Float(mag, frac) == [t |-> "num", k |-> "Float", mag |-> mag, frac |-> frac]

\* Value::get(&str): Some(member) on an object holding the key, else None.
Get(value, key) ==
    IF value.t = "obj" /\ key \in DOMAIN value.m THEN Some(value.m[key]) ELSE None

\* Value::as_str
As_str(value) == IF value.t = "str" THEN Some(value.s) ELSE None

\* Value::as_array
As_array(value) == IF value.t = "arr" THEN Some(value.a) ELSE None

\* Value::as_object
As_object(value) == IF value.t = "obj" THEN Some(value.m) ELSE None

\* Value::as_i64: a PosInt above i64::MAX and every Float give None.
I64MaxTopLimb == 32767
As_i64(value) ==
    IF value.t # "num" THEN None
    ELSE IF value.k = "PosInt"
         THEN IF value.mag[1] <= I64MaxTopLimb
              THEN Some([neg |-> FALSE, mag |-> value.mag]) ELSE None
    ELSE IF value.k = "NegInt" THEN Some([neg |-> TRUE, mag |-> value.mag])
    ELSE None

\* Option<&str>::unwrap_or_default: the empty string when None.
Unwrap_or_default(o) == IF IsSome(o) THEN Unwrap(o) ELSE << >>

\* ------------------------------------------------------------------------
\* uuid::Uuid::parse_str
\* ------------------------------------------------------------------------
HexLower == << "0","1","2","3","4","5","6","7","8","9","a","b","c","d","e","f" >>
HexUpper == << "0","1","2","3","4","5","6","7","8","9","A","B","C","D","E","F" >>
IsHex(c) == \E i \in 1..16 : HexLower[i] = c \/ HexUpper[i] = c
HexVal(c) == CHOOSE d \in 0..15 : HexLower[d + 1] = c \/ HexUpper[d + 1] = c

UrnPrefix == << "u","r","n",":","u","u","i","d",":" >>
HyphenAt == {9, 14, 19, 24}

\* 32 hex digits, no separators.
Parse_simple(s) ==
    IF \A i \in 1..32 : IsHex(s[i])
    THEN Ok([i \in 1..32 |-> HexVal(s[i])])
    ELSE Err("uuid")

\* 8-4-4-4-12 hex digits separated by hyphens.
Parse_hyphenated(s) ==
    IF \A i \in 1..36 : IF i \in HyphenAt THEN s[i] = "-" ELSE IsHex(s[i])
    THEN LET digits == SelectSeq(s, LAMBDA c : c # "-")
         IN  Ok([i \in 1..32 |-> HexVal(digits[i])])
    ELSE Err("uuid")

Uuid_parse_str(s) ==
    LET n == Len(s) IN
    IF n = 32 THEN Parse_simple(s)
    ELSE IF n = 36 THEN Parse_hyphenated(s)
    ELSE IF n = 38 /\ s[1] = "{" /\ s[38] = "}" THEN Parse_hyphenated(SubSeq(s, 2, 37))
    ELSE IF n = 45 /\ SubSeq(s, 1, 9) = UrnPrefix THEN Parse_hyphenated(SubSeq(s, 10, 45))
    ELSE Err("uuid")

\* ------------------------------------------------------------------------
\* models/device.rs
\* ------------------------------------------------------------------------

\* value.get(key).and_then(Value::as_str)
Get_str(value, key) ==
    LET member == Get(value, key) IN
    IF IsSome(member) THEN As_str(Unwrap(member)) ELSE None

\* value.get(key).and_then(Value::as_i64)
Get_i64(value, key) ==
    LET member == Get(value, key) IN
    IF IsSome(member) THEN As_i64(Unwrap(member)) ELSE None

\* value.get(key).and_then(Value::as_array)
Get_array(value, key) ==
    LET member == Get(value, key) IN
    IF IsSome(member) THEN As_array(Unwrap(member)) ELSE None

\* BasicAuth::from_value with the password read from `username`.
BasicAuth_from_value_SameKey(value) ==
    LET username_value == Get_str(value, "username")
        password_value == Get_str(value, "username")
    IN  IF ~IsSome(username_value)
        THEN Err("Username for Basic authentication not found")
        ELSE IF ~IsSome(password_value)
        THEN Err("Password for Basic authentication not found")
        ELSE Ok([username |-> Unwrap(username_value),
                 password |-> Unwrap(password_value)])

\* BasicAuth::from_value
BasicAuth_from_value(value) ==
    LET username_value == Get_str(value, "username")
        password_value == Get_str(value, "password")
    IN  IF ~IsSome(username_value)
        THEN Err("Username for Basic authentication not found")
        ELSE IF ~IsSome(password_value)
        THEN Err("Password for Basic authentication not found")
        ELSE Ok([username |-> Unwrap(username_value),
                 password |-> Unwrap(password_value)])

\* Oauth2::from_value
Oauth2_from_value(value) ==
    LET username_value == Get_str(value, "username")
        password_value == Get_str(value, "password")
        grant_type_value == Get_str(value, "grant_type")
        auth_url_value == Get_str(value, "auth_url")
    IN  IF ~IsSome(username_value)
        THEN Err("Username for OAuth2 authentication not found")
        ELSE IF ~IsSome(password_value)
        THEN Err("Password for OAuth2 authentication not found")
        ELSE IF ~IsSome(grant_type_value)
        THEN Err("Grant type for OAuth2 authentication not found")
        ELSE IF ~IsSome(auth_url_value)
        THEN Err("Authentication URL for OAuth2 authentication not found")
        ELSE Ok([username |-> Unwrap(username_value),
                 password |-> Unwrap(password_value),
                 grant_type |-> Unwrap(grant_type_value),
                 auth_url |-> Unwrap(auth_url_value)])

\* CustomAuth::from_value
CustomAuth_from_value(value) ==
    LET auth_body_value == Get(value, "auth_body")
        auth_url_value == Get_str(value, "auth_url")
    IN  IF ~IsSome(auth_body_value)
        THEN Err("Authentication body for Custom authentication not found")
        ELSE IF ~IsSome(auth_url_value)
        THEN Err("Authentication URL for Custom authentication not found")
        ELSE Ok([auth_body |-> Unwrap(auth_body_value),
                 auth_url |-> Unwrap(auth_url_value)])

\* enum Auth: a variant tag around the variant's record.
Variant(tag, r) == IF r.ok THEN Ok([tag |-> tag, body |-> r.val]) ELSE r

\* Auth::from_value with the BasicAuth test moved to the front.
Auth_from_value_BasicFirst(value) ==
    LET value_object == As_object(value) IN
    IF ~IsSome(value_object) THEN Err("Auth body not valid")
    ELSE LET keys == DOMAIN Unwrap(value_object) IN
         IF "username" \in keys /\ "password" \in keys
         THEN Variant("BasicAuth", BasicAuth_from_value(value))
         ELSE IF "grant_type" \in keys
         THEN Variant("Oauth2", Oauth2_from_value(value))
         ELSE IF "auth_body" \in keys
         THEN Variant("Custom", CustomAuth_from_value(value))
         ELSE Err("Not recognizable authentication type")

\* Auth::from_value trying the next variant when one fails.
Auth_from_value_Fallback(value) ==
    LET value_object == As_object(value) IN
    IF ~IsSome(value_object) THEN Err("Auth body not valid")
    ELSE LET keys == DOMAIN Unwrap(value_object)
             oauth2 == Variant("Oauth2", Oauth2_from_value(value))
             custom == Variant("Custom", CustomAuth_from_value(value))
             basic == Variant("BasicAuth", BasicAuth_from_value(value))
         IN  IF "grant_type" \in keys /\ oauth2.ok THEN oauth2
             ELSE IF "auth_body" \in keys /\ custom.ok THEN custom
             ELSE IF "username" \in keys /\ "password" \in keys /\ basic.ok THEN basic
             ELSE IF "grant_type" \in keys THEN oauth2
             ELSE IF "auth_body" \in keys THEN custom
             ELSE IF "username" \in keys /\ "password" \in keys THEN basic
             ELSE Err("Not recognizable authentication type")

\* Auth::from_value with `||` for `&&` in the BasicAuth test.
Auth_from_value_EitherKey(value) ==
    LET value_object == As_object(value) IN
    IF ~IsSome(value_object) THEN Err("Auth body not valid")
    ELSE LET keys == DOMAIN Unwrap(value_object) IN
         IF "grant_type" \in keys
         THEN Variant("Oauth2", Oauth2_from_value(value))
         ELSE IF "auth_body" \in keys
         THEN Variant("Custom", CustomAuth_from_value(value))
         ELSE IF "username" \in keys \/ "password" \in keys
         THEN Variant("BasicAuth", BasicAuth_from_value(value))
         ELSE Err("Not recognizable authentication type")

\* Auth::from_value
Auth_from_value(value) ==
    LET value_object == As_object(value) IN
    IF ~IsSome(value_object) THEN Err("Auth body not valid")
    ELSE LET keys == DOMAIN Unwrap(value_object) IN
         IF "grant_type" \in keys
         THEN Variant("Oauth2", Oauth2_from_value(value))
         ELSE IF "auth_body" \in keys
         THEN Variant("Custom", CustomAuth_from_value(value))
         ELSE IF "username" \in keys /\ "password" \in keys
         THEN Variant("BasicAuth", BasicAuth_from_value(value))
         ELSE Err("Not recognizable authentication type")

\* Device::from_value reporting a nested failure under its own message.
Device_from_value_Wrapped(value) ==
    LET host_value == Get_str(value, "host")
        port_value == Get_i64(value, "port")
        auth_field == Get(value, "auth")
    IN  IF ~IsSome(host_value) THEN Err("Host not found")
        ELSE IF ~IsSome(auth_field) THEN Err("Auth body not found")
        ELSE LET auth_value == Auth_from_value(Unwrap(auth_field)) IN
             IF ~auth_value.ok THEN Err("Auth body not found")
             ELSE Ok([host |-> Unwrap(host_value),
                      port |-> port_value,
                      auth |-> auth_value.val])

\* Device::from_value with `?` on the port.
Device_from_value_PortRequired(value) ==
    LET host_value == Get_str(value, "host")
        port_value == Get_i64(value, "port")
        auth_field == Get(value, "auth")
    IN  IF ~IsSome(host_value) THEN Err("Host not found")
        ELSE IF ~IsSome(port_value) THEN Err("Port not found")
        ELSE IF ~IsSome(auth_field) THEN Err("Auth body not found")
        ELSE LET auth_value == Auth_from_value(Unwrap(auth_field)) IN
             IF ~auth_value.ok THEN auth_value
             ELSE Ok([host |-> Unwrap(host_value),
                      port |-> port_value,
                      auth |-> auth_value.val])

\* Device::from_value
Device_from_value(value) ==
    LET host_value == Get_str(value, "host")
        port_value == Get_i64(value, "port")
        auth_field == Get(value, "auth")
    IN  IF ~IsSome(host_value) THEN Err("Host not found")
        ELSE IF ~IsSome(auth_field) THEN Err("Auth body not found")
        ELSE LET auth_value == Auth_from_value(Unwrap(auth_field)) IN
             IF ~auth_value.ok THEN auth_value
             ELSE Ok([host |-> Unwrap(host_value),
                      port |-> port_value,
                      auth |-> auth_value.val])

\* ------------------------------------------------------------------------
\* models/node_edge_point.rs
\* ------------------------------------------------------------------------

\* Uuid::parse_str(value.get(key).and_then(Value::as_str).unwrap_or_default())
Get_uuid(value, key) == Uuid_parse_str(Unwrap_or_default(Get_str(value, key)))

\* NodeEdgePoint::from_value with the two checks in the other order.
NodeEdgePoint_from_value_NodeFirst(value) ==
    LET node_edge_point_uuid == Get_uuid(value, "node-edge-point-uuid")
        node_uuid == Get_uuid(value, "node-uuid")
    IN  IF ~node_uuid.ok THEN Err("Not found node uuid")
        ELSE IF ~node_edge_point_uuid.ok THEN Err("Not found node edge point uuid")
        ELSE Ok([node_edge_point_uuid |-> node_edge_point_uuid.val,
                 node_uuid |-> node_uuid.val])

\* NodeEdgePoint::from_value with a missing `node-uuid` read as the nil UUID.
NodeEdgePoint_from_value_NilNode(value) ==
    LET node_edge_point_uuid == Get_uuid(value, "node-edge-point-uuid")
        node_uuid == Get_uuid(value, "node-uuid")
    IN  IF ~node_edge_point_uuid.ok THEN Err("Not found node edge point uuid")
        ELSE IF ~IsSome(Get(value, "node-uuid"))
        THEN Ok([node_edge_point_uuid |-> node_edge_point_uuid.val,
                 node_uuid |-> [i \in 1..32 |-> 0]])
        ELSE IF ~node_uuid.ok THEN Err("Not found node uuid")
        ELSE Ok([node_edge_point_uuid |-> node_edge_point_uuid.val,
                 node_uuid |-> node_uuid.val])

\* NodeEdgePoint::from_value
NodeEdgePoint_from_value(value) ==
    LET node_edge_point_uuid == Get_uuid(value, "node-edge-point-uuid")
        node_uuid == Get_uuid(value, "node-uuid")
    IN  IF ~node_edge_point_uuid.ok THEN Err("Not found node edge point uuid")
        ELSE IF ~node_uuid.ok THEN Err("Not found node uuid")
        ELSE Ok([node_edge_point_uuid |-> node_edge_point_uuid.val,
                 node_uuid |-> node_uuid.val])

\* ------------------------------------------------------------------------
\* Input texts
\* ------------------------------------------------------------------------
\* hyphenated, lower case
TxtNep1 == << "6","5","a","3","9","4","2","7","-","3","0","5","5","-","3","b","a","4","-","9","e","1","5","-","0","e","b","e","d","4","9","7","4","5","7","7" >>
\* hyphenated, lower case
TxtNode1 == << "6","2","d","1","1","f","1","3","-","d","b","6","c","-","3","3","9","8","-","8","a","8","3","-","5","f","a","c","0","b","2","b","7","4","7","6" >>
\* the same UUID in upper case
TxtNode1Upper == << "6","2","D","1","1","F","1","3","-","D","B","6","C","-","3","3","9","8","-","8","A","8","3","-","5","F","A","C","0","B","2","B","7","4","7","6" >>
\* the same UUID without hyphens
TxtNep1Simple == << "6","5","a","3","9","4","2","7","3","0","5","5","3","b","a","4","9","e","1","5","0","e","b","e","d","4","9","7","4","5","7","7" >>
\* URN form
TxtNode2Urn == << "u","r","n",":","u","u","i","d",":","7","b","0","c","9","7","3","a","-","9","9","6","a","-","3","4","0","9","-","a","d","2","f","-","d","1","7","3","3","5","4","b","f","d","b","7" >>
\* hyphenated, lower case
TxtLink1 == << "1","4","2","1","9","5","3","9","-","2","0","8","b","-","3","5","f","5","-","b","7","c","f","-","3","5","a","5","8","e","0","8","3","4","9","0" >>
\* braced form
TxtLink1Braced == << "{","1","4","2","1","9","5","3","9","-","2","0","8","b","-","3","5","f","5","-","b","7","c","f","-","3","5","a","5","8","e","0","8","3","4","9","0","}" >>
\* malformed: truncated
TxtShort == << "6","5","a","3","9","4","2","7","-","3","0","5","5" >>
\* malformed: 36 characters, one not a hex digit
TxtNotHex == << "6","5","a","3","9","4","2","7","-","3","0","5","5","-","3","b","a","4","-","9","e","1","5","-","0","e","b","e","d","4","9","7","4","5","7","g" >>
\* malformed: 36 characters, a hyphen misplaced
TxtBadHyphen == << "6","5","a","3","9","4","2","7","3","-","0","5","5","-","3","b","a","4","-","9","e","1","5","-","0","e","b","e","d","4","9","7","4","5","7","7" >>
\* the empty string
TxtEmpty == << >>

TxtU == << "u" >>
TxtP == << "p" >>
TxtH == << "h" >>
TxtGrant == << "c","c" >>
TxtUrl == << "h","t","t","p" >>
TxtState == << "U","N","L","O","C","K","E","D" >>
TxtLocked == << "L","O","C","K","E","D" >>

\* ------------------------------------------------------------------------
\* serde_json::to_string and std::hash::DefaultHasher
\* ------------------------------------------------------------------------
DigitChar == << "0","1","2","3","4","5","6","7","8","9" >>
Zero == << 0, 0, 0, 0 >>

\* Long division of a four-limb magnitude by ten.
DivTen(mag) ==
    LET c1 == mag[1]
        c2 == (c1 % 10) * 65536 + mag[2]
        c3 == (c2 % 10) * 65536 + mag[3]
        c4 == (c3 % 10) * 65536 + mag[4]
    IN  [q |-> << c1 \div 10, c2 \div 10, c3 \div 10, c4 \div 10 >>, r |-> c4 % 10]

RECURSIVE Decimal(_)
Decimal(mag) ==
    LET d == DivTen(mag) IN
    IF d.q = Zero THEN << DigitChar[d.r + 1] >>
    ELSE Decimal(d.q) \o << DigitChar[d.r + 1] >>

Number_to_string(v) ==
    IF v.k = "PosInt" THEN Decimal(v.mag)
    ELSE IF v.k = "NegInt" THEN << "-" >> \o Decimal(v.mag)
    ELSE Decimal(v.mag) \o << "." >> \o << DigitChar[v.frac + 1] >>

\* serde_json's Map is a BTreeMap: members are written in key order.
KeyOrder == << "administrative-state", "auth", "auth_body", "auth_url",
               "grant_type", "host", "node-edge-point", "node-edge-point-uuid",
               "node-uuid", "password", "port", "topology-uuid", "username",
               "uuid" >>
SortedKeys(m) == SelectSeq(KeyOrder, LAMBDA k : k \in DOMAIN m)

RECURSIVE JoinComma(_)
JoinComma(parts) ==
    IF parts = << >> THEN << >>
    ELSE IF Len(parts) = 1 THEN parts[1]
    ELSE parts[1] \o << "," >> \o JoinComma(Tail(parts))

RECURSIVE To_string(_)
To_string(v) ==
    IF v.t = "null" THEN << "null" >>
    ELSE IF v.t = "bool" THEN (IF v.b THEN << "true" >> ELSE << "false" >>)
    ELSE IF v.t = "num" THEN Number_to_string(v)
    ELSE IF v.t = "str" THEN << "\"" >> \o v.s \o << "\"" >>
    ELSE IF v.t = "arr"
    THEN << "[" >> \o JoinComma([i \in 1..Len(v.a) |-> To_string(v.a[i])]) \o << "]" >>
    ELSE LET ks == SortedKeys(v.m) IN
         << "{" >>
         \o JoinComma([i \in 1..Len(ks) |->
                          << "\"", ks[i], "\"", ":" >> \o To_string(v.m[ks[i]])])
         \o << "}" >>

\* DefaultHasher is SipHash with fixed keys: a deterministic function of the
\* bytes written.  It is kept as the written bytes themselves (a 64-bit hash
\* without collisions).
DefaultHasher_new == << >>
\* impl Hash for str: the bytes, then 0xff.
Hash_str(hasher, s) == hasher \o s \o << "0xff" >>
Hasher_finish(hasher) == hasher

\* ------------------------------------------------------------------------
\* Inputs
\* ------------------------------------------------------------------------
Small(n) == << 0, 0, 0, n >>
I64Max == << 32767, 65535, 65535, 65535 >>
TwoTo63 == << 32768, 0, 0, 0 >>
U64Max == << 65535, 65535, 65535, 65535 >>

EmptyMap == [k \in {} |-> Null]

\* The maps with domain K whose member at k is drawn from vals[k].
RECURSIVE MapsOver(_, _)
MapsOver(K, vals) ==
    IF K = {} THEN { EmptyMap }
    ELSE LET k == CHOOSE x \in K : TRUE IN
         { [x \in K |-> IF x = k THEN v ELSE f[x]] :
             f \in MapsOver(K \ {k}, vals), v \in vals[k] }

\* Objects in which any subset of `keys` is present.
ObjectsOver(keys, vals) ==
    UNION { { Obj(f) : f \in MapsOver(K, vals) } : K \in SUBSET keys }

AuthKeys == { "grant_type", "auth_body", "username", "password", "auth_url" }
AuthFieldValues ==
    [k \in AuthKeys |->
    IF k = "auth_body" THEN { Null, Obj([username |-> Str(TxtU)]) }
    ELSE IF k = "grant_type" THEN { Str(TxtGrant), Null }
    ELSE IF k = "username" THEN { Str(TxtU), PosInt(Small(7)) }
    ELSE IF k = "password" THEN { Str(TxtP), Bool(TRUE) }
    ELSE { Str(TxtUrl), Null }]
NonObjects == { Null, Str(TxtU), PosInt(Small(7)), Arr(<< >>) }
AuthInputs == ObjectsOver(AuthKeys, AuthFieldValues) \cup NonObjects

\* The `auth` members tried inside a device: every key combination with
\* string-typed fields, and the non-objects.
DeviceAuthValues ==
    { a \in AuthInputs :
        a.t = "obj" =>
          \A k \in DOMAIN a.m : k # "auth_body" => a.m[k].t = "str" }
DeviceKeys == { "host", "port", "auth" }
PortValues ==
    { Null, Str(<< "8","0" >>), Arr(<< >>),
      PosInt(Small(8080)), PosInt(I64Max), PosInt(TwoTo63),
      NegInt(Small(1)), NegInt(TwoTo63),
      Float(Small(8080), 5), Float(Small(80), 0) }
DeviceFieldValues ==
    [k \in DeviceKeys |->
    IF k = "host" THEN { Str(TxtH), Str(TxtEmpty), Null }
    ELSE IF k = "port" THEN PortValues
    ELSE DeviceAuthValues]
DeviceInputs == ObjectsOver(DeviceKeys, DeviceFieldValues) \cup NonObjects

UuidTexts ==
    { TxtNep1, TxtNode1, TxtNode1Upper, TxtNep1Simple, TxtNode2Urn, TxtLink1,
      TxtLink1Braced, TxtShort, TxtNotHex, TxtBadHyphen, TxtEmpty }
NepKeys == { "node-edge-point-uuid", "node-uuid", "topology-uuid" }
NepFieldValues ==
    [k \in NepKeys |->
    IF k = "topology-uuid" THEN { Str(TxtLink1) }
    ELSE { Str(s) : s \in UuidTexts } \cup { Null }]
NepInputs == ObjectsOver(NepKeys, NepFieldValues) \cup NonObjects

FullElem ==
    Obj([k \in NepKeys |->
           IF k = "node-edge-point-uuid" THEN Str(TxtNep1)
           ELSE IF k = "node-uuid" THEN Str(TxtNode1) ELSE Str(TxtLink1)])
\* FullElem without its unmodelled `topology-uuid` member.
BareElem ==
    Obj([k \in { "node-edge-point-uuid", "node-uuid" } |->
           IF k = "node-uuid" THEN Str(TxtNode1) ELSE Str(TxtNep1)])
LinkElems ==
    { FullElem, BareElem,
      Obj([k \in { "node-edge-point-uuid", "node-uuid" } |->
             IF k = "node-uuid" THEN Str(TxtNode2Urn) ELSE Str(TxtNode1Upper)]),
      Obj([k \in { "node-edge-point-uuid", "topology-uuid" } |->
             IF k = "topology-uuid" THEN Str(TxtLink1) ELSE Str(TxtNep1Simple)]),
      Obj([k \in { "node-edge-point-uuid", "node-uuid" } |->
             IF k = "node-uuid" THEN Str(TxtShort) ELSE Str(TxtNotHex)]),
      Str(TxtNep1) }
LinkArrays == UNION { [1..n -> LinkElems] : n \in 0..MaxElems }

LinkKeys == { "uuid", "node-edge-point", "administrative-state", "host" }
LinkFieldValues ==
    [k \in LinkKeys |->
    IF k = "uuid"
    THEN { Str(TxtLink1Braced), Str(TxtBadHyphen), Null }
    ELSE IF k = "node-edge-point"
    THEN { Arr(a) : a \in LinkArrays }
         \cup { FullElem }
    ELSE IF k = "administrative-state" THEN { Str(TxtState), Str(TxtLocked) }
    ELSE { Str(TxtH) }]
LinkInputs == ObjectsOver(LinkKeys, LinkFieldValues) \cup { Null }
HostLabels == { << "h","1" >>, TxtH }

\* ------------------------------------------------------------------------
\* Serialize and Deserialize of NodeEdgePoint and Link (serde derive)
\* ------------------------------------------------------------------------

\* A derived Serialize writes a struct as its fields in declaration order,
\* each under its serialized name; a document is that sequence of fields.
Field(k, v) == [key |-> k, val |-> v]
Doc(fields) == [t |-> "doc", fields |-> fields]

\* A u64 written as a JSON number; the number carries the hash value.
U64(h) == [t |-> "num", k |-> "PosInt", u64 |-> h]
As_u64(v) == IF v.t = "num" /\ v.k = "PosInt" THEN Ok(v.u64) ELSE Err("invalid type")

\* Uuid is serialized as its lower-case hyphenated text.
Uuid_to_string(u) ==
    [i \in 1..36 |->
       IF i \in HyphenAt THEN "-"
       ELSE HexLower[u[i - Cardinality({ h \in HyphenAt : h < i })] + 1]]

\* Uuid is deserialized from a string with Uuid::parse_str.
Uuid_deserialize(v) ==
    IF v.t = "str" THEN Uuid_parse_str(v.s) ELSE Err("invalid type")

\* DateTime<Local> is serialized as text holding the whole instant; the
\* instants of the model are the clock values, written in decimal.
DateTime_to_string(d) == Decimal(<< 0, 0, 0, d >>)

IsDigit(c) == \E i \in 1..10 : DigitChar[i] = c
DigitVal(c) == CHOOSE d \in 0..9 : DigitChar[d + 1] = c

RECURSIVE DigitsValue(_)
DigitsValue(s) ==
    IF s = << >> THEN 0
    ELSE 10 * DigitsValue(SubSeq(s, 1, Len(s) - 1)) + DigitVal(s[Len(s)])

DateTime_deserialize(v) ==
    IF v.t # "str" THEN Err("invalid type")
    ELSE IF v.s = << >> \/ \E i \in 1..Len(v.s) : ~IsDigit(v.s[i])
    THEN Err("premature end of input")
    ELSE Ok(DigitsValue(v.s))

String_deserialize(v) == IF v.t = "str" THEN Ok(v.s) ELSE Err("invalid type")

\* The derived visitor: the field named `key`, which must occur exactly once;
\* fields of other names are skipped.
Lookup(fields, key) ==
    LET hits == SelectSeq(fields, LAMBDA f : f.key = key) IN
    IF hits = << >> THEN Err("missing field")
    ELSE IF Len(hits) > 1 THEN Err("duplicate field")
    ELSE Ok(hits[1].val)

NodeEdgePoint_serialize(p) ==
    Doc(<< Field("node-edge-point-uuid", Str(Uuid_to_string(p.node_edge_point_uuid))),
           Field("node-uuid", Str(Uuid_to_string(p.node_uuid))) >>)

NodeEdgePoint_deserialize(d) ==
    IF d.t # "doc" THEN Err("invalid type")
    ELSE
    LET f1 == Lookup(d.fields, "node-edge-point-uuid")
        f2 == Lookup(d.fields, "node-uuid")
    IN  IF ~f1.ok THEN f1
        ELSE IF ~f2.ok THEN f2
        ELSE LET u1 == Uuid_deserialize(f1.val)
                 u2 == Uuid_deserialize(f2.val)
             IN  IF ~u1.ok THEN u1
                 ELSE IF ~u2.ok THEN u2
                 ELSE Ok([node_edge_point_uuid |-> u1.val, node_uuid |-> u2.val])

\* Vec<NodeEdgePoint> from an array: the first element that fails decides.
Vec_deserialize(v) ==
    IF v.t # "arr" THEN Err("invalid type")
    ELSE
    LET r == [i \in 1..Len(v.a) |-> NodeEdgePoint_deserialize(v.a[i])]
        bad == { i \in 1..Len(v.a) : ~r[i].ok }
    IN  IF bad # {} THEN r[CHOOSE i \in bad : \A j \in bad : i <= j]
        ELSE Ok([i \in 1..Len(v.a) |-> r[i].val])

\* Link written with `node_edge_points` under its field name.
Link_serialize_FieldName(l) ==
    Doc(<< Field("host", Str(l.host)),
           Field("node_edge_points",
                 Arr([i \in 1..Len(l.node_edge_points) |->
                        NodeEdgePoint_serialize(l.node_edge_points[i])])),
           Field("uuid", Str(Uuid_to_string(l.uuid))),
           Field("hash", U64(l.hash)),
           Field("date", Str(DateTime_to_string(l.date))) >>)

\* Serialize for Link: the five fields of the struct, in declaration order.
Link_serialize(l) ==
    Doc(<< Field("host", Str(l.host)),
           Field("node-edge-point",
                 Arr([i \in 1..Len(l.node_edge_points) |->
                        NodeEdgePoint_serialize(l.node_edge_points[i])])),
           Field("uuid", Str(Uuid_to_string(l.uuid))),
           Field("hash", U64(l.hash)),
           Field("date", Str(DateTime_to_string(l.date))) >>)

\* Deserialize for Link: every field is required.
Link_deserialize(d) ==
    IF d.t # "doc" THEN Err("invalid type")
    ELSE
    LET fh == Lookup(d.fields, "host")
        fn == Lookup(d.fields, "node-edge-point")
        fu == Lookup(d.fields, "uuid")
        fs == Lookup(d.fields, "hash")
        fd == Lookup(d.fields, "date")
    IN  IF ~fh.ok THEN fh
        ELSE IF ~fn.ok THEN fn
        ELSE IF ~fu.ok THEN fu
        ELSE IF ~fs.ok THEN fs
        ELSE IF ~fd.ok THEN fd
        ELSE LET h == String_deserialize(fh.val)
                 n == Vec_deserialize(fn.val)
                 u == Uuid_deserialize(fu.val)
                 x == As_u64(fs.val)
                 t == DateTime_deserialize(fd.val)
             IN  IF ~h.ok THEN h
                 ELSE IF ~n.ok THEN n
                 ELSE IF ~u.ok THEN u
                 ELSE IF ~x.ok THEN x
                 ELSE IF ~t.ok THEN t
                 ELSE Ok([host |-> h.val, node_edge_points |-> n.val,
                          uuid |-> u.val, hash |-> x.val, date |-> t.val])

\* ------------------------------------------------------------------------
\* State
\* ------------------------------------------------------------------------
VARIABLES
    pc,                 \* position of the running call; "idle" between calls
    op,                 \* the parser called: "auth", "device", "nep", "link"
    value,              \* the call's `value` argument
    host,               \* Link::from_value's `host` argument
    result,             \* what the call returned, once pc = "done"
    clock,              \* the wall clock
    uuid,               \* Link::from_value's local `uuid`
    node_edge_points,   \* Link::from_value's local vector
    idx,                \* position of the for loop in the input array
    hasher,             \* Link::from_value's local `hasher`
    now,                \* Link::from_value's local `now`
    clockReads,         \* Local::now() calls made by the running call
    prev,               \* an earlier Link call kept for comparison
    parked,             \* the call of the thread that is not running
    wire                \* the serialized Link and what was deserialized from it

vars == << pc, op, value, host, result, clock, uuid, node_edge_points, idx,
           hasher, now, clockReads, prev, parked, wire >>
locals == << uuid, node_edge_points, idx, hasher, now, clockReads >>
aux == << prev, parked, wire >>

NoResult == Err("")
NoUuid == << >>
NoHost == << >>
NoPrev == [set |-> FALSE]
NoWire == [set |-> FALSE]

\* A call as its thread holds it: position, arguments, locals, result.
Context(p, o, v, h, r, u, n, i, hs, nw, cr) ==
    [pc |-> p, op |-> o, value |-> v, host |-> h, result |-> r, uuid |-> u,
     node_edge_points |-> n, idx |-> i, hasher |-> hs, now |-> nw,
     clockReads |-> cr]
IdleContext ==
    Context("idle", "none", Null, NoHost, NoResult, NoUuid, << >>, 0,
            DefaultHasher_new, 0, 0)

Init ==
    /\ pc = "idle"
    /\ op = "none"
    /\ value = Null
    /\ host = NoHost
    /\ result = NoResult
    /\ clock = 0
    /\ uuid = NoUuid
    /\ node_edge_points = << >>
    /\ idx = 0
    /\ hasher = DefaultHasher_new
    /\ now = 0
    /\ clockReads = 0
    /\ prev = NoPrev
    /\ parked = IdleContext
    /\ wire = NoWire

\* Auth::from_value, called and run to its return.
ParseAuth ==
    /\ pc = "idle"
    /\ \E v \in AuthInputs :
         /\ value' = v
         /\ result' = Auth_from_value(v)
    /\ op' = "auth"
    /\ pc' = "done"
    /\ UNCHANGED << host, clock, locals >>
    /\ UNCHANGED aux

\* Device::from_value, called and run to its return.
ParseDevice ==
    /\ pc = "idle"
    /\ \E v \in DeviceInputs :
         /\ value' = v
         /\ result' = Device_from_value(v)
    /\ op' = "device"
    /\ pc' = "done"
    /\ UNCHANGED << host, clock, locals >>
    /\ UNCHANGED aux

\* NodeEdgePoint::from_value, called and run to its return.
ParseNodeEdgePoint ==
    /\ pc = "idle"
    /\ \E v \in NepInputs :
         /\ value' = v
         /\ result' = NodeEdgePoint_from_value(v)
    /\ op' = "nep"
    /\ pc' = "done"
    /\ UNCHANGED << host, clock, locals >>
    /\ UNCHANGED aux

\* Link::from_value looking for the array before the `uuid` field.
LinkUuid_ArrayFirst ==
    /\ pc = "idle"
    /\ \E v \in LinkInputs, h \in HostLabels :
         LET parsed == Get_uuid(v, "uuid") IN
         /\ op' = "link"
         /\ value' = v
         /\ host' = h
         /\ IF ~IsSome(Get_array(v, "node-edge-point"))
            THEN /\ result' = Err("Not found node edge points list")
                 /\ pc' = "done"
                 /\ UNCHANGED uuid
            ELSE IF parsed.ok
            THEN /\ uuid' = parsed.val
                 /\ pc' = "array"
                 /\ UNCHANGED result
            ELSE /\ result' = Err("Not found link uuid")
                 /\ pc' = "done"
                 /\ UNCHANGED uuid
    /\ UNCHANGED << clock, node_edge_points, idx, hasher, now, clockReads >>
    /\ UNCHANGED aux

\* Link::from_value, entry: `host.to_string()` and the `uuid` field.
LinkUuid ==
    /\ pc = "idle"
    /\ \E v \in LinkInputs, h \in HostLabels :
         LET parsed == Get_uuid(v, "uuid") IN
         /\ op' = "link"
         /\ value' = v
         /\ host' = h
         /\ IF parsed.ok
            THEN /\ uuid' = parsed.val
                 /\ pc' = "array"
                 /\ UNCHANGED result
            ELSE /\ result' = Err("Not found link uuid")
                 /\ pc' = "done"
                 /\ UNCHANGED uuid
    /\ UNCHANGED << clock, node_edge_points, idx, hasher, now, clockReads >>
    /\ UNCHANGED aux

\* The array check reporting the message of the `uuid` check.
LinkArray_UuidMessage ==
    /\ pc = "array"
    /\ LET node_edge_points_array == Get_array(value, "node-edge-point") IN
       IF IsSome(node_edge_points_array)
       THEN /\ node_edge_points' = << >>
            /\ idx' = 1
            /\ pc' = "loop"
            /\ UNCHANGED result
       ELSE /\ result' = Err("Not found link uuid")
            /\ pc' = "done"
            /\ UNCHANGED << node_edge_points, idx >>
    /\ UNCHANGED << op, value, host, clock, uuid, hasher, now, clockReads >>
    /\ UNCHANGED aux

\* The `node-edge-point` field must be an array.
LinkArray ==
    /\ pc = "array"
    /\ LET node_edge_points_array == Get_array(value, "node-edge-point") IN
       IF IsSome(node_edge_points_array)
       THEN /\ node_edge_points' = << >>
            /\ idx' = 1
            /\ pc' = "loop"
            /\ UNCHANGED result
       ELSE /\ result' = Err("Not found node edge points list")
            /\ pc' = "done"
            /\ UNCHANGED << node_edge_points, idx >>
    /\ UNCHANGED << op, value, host, clock, uuid, hasher, now, clockReads >>
    /\ UNCHANGED aux

\* The for loop inserting each parsed point at the front.
LinkElement_Prepend ==
    /\ pc = "loop"
    /\ idx <= Len(value.m["node-edge-point"].a)
    /\ LET r == NodeEdgePoint_from_value(value.m["node-edge-point"].a[idx]) IN
       IF r.ok
       THEN /\ node_edge_points' = << r.val >> \o node_edge_points
            /\ idx' = idx + 1
            /\ UNCHANGED << pc, result >>
       ELSE /\ result' = r
            /\ pc' = "done"
            /\ UNCHANGED << node_edge_points, idx >>
    /\ UNCHANGED << op, value, host, clock, uuid, hasher, now, clockReads >>
    /\ UNCHANGED aux

\* The for loop passing over an element that does not parse.
LinkElement_SkipInvalid ==
    /\ pc = "loop"
    /\ idx <= Len(value.m["node-edge-point"].a)
    /\ LET r == NodeEdgePoint_from_value(value.m["node-edge-point"].a[idx]) IN
       /\ node_edge_points' = IF r.ok THEN Append(node_edge_points, r.val)
                              ELSE node_edge_points
       /\ idx' = idx + 1
       /\ UNCHANGED << pc, result >>
    /\ UNCHANGED << op, value, host, clock, uuid, hasher, now, clockReads >>
    /\ UNCHANGED aux

\* One iteration of the for loop.
LinkElement ==
    /\ pc = "loop"
    /\ idx <= Len(value.m["node-edge-point"].a)
    /\ LET r == NodeEdgePoint_from_value(value.m["node-edge-point"].a[idx]) IN
       IF r.ok
       THEN /\ node_edge_points' = Append(node_edge_points, r.val)
            /\ idx' = idx + 1
            /\ UNCHANGED << pc, result >>
       ELSE /\ result' = r
            /\ pc' = "done"
            /\ UNCHANGED << node_edge_points, idx >>
    /\ UNCHANGED << op, value, host, clock, uuid, hasher, now, clockReads >>
    /\ UNCHANGED aux

\* The hasher seeded with the time of the call.
LinkHash_WithClock ==
    /\ pc = "loop"
    /\ idx > Len(value.m["node-edge-point"].a)
    /\ hasher' = Hash_str(<< DigitChar[clock + 1] >>, To_string(value))
    /\ pc' = "now"
    /\ UNCHANGED << op, value, host, result, clock, uuid, node_edge_points, idx,
                    now, clockReads >>
    /\ UNCHANGED aux

\* The hasher fed the `uuid` member only.
LinkHash_UuidOnly ==
    /\ pc = "loop"
    /\ idx > Len(value.m["node-edge-point"].a)
    /\ hasher' = Hash_str(DefaultHasher_new, To_string(value.m["uuid"]))
    /\ pc' = "now"
    /\ UNCHANGED << op, value, host, result, clock, uuid, node_edge_points, idx,
                    now, clockReads >>
    /\ UNCHANGED aux

\* After the loop: a new hasher is fed the serialized input.
LinkHash ==
    /\ pc = "loop"
    /\ idx > Len(value.m["node-edge-point"].a)
    /\ hasher' = Hash_str(DefaultHasher_new, To_string(value))
    /\ pc' = "now"
    /\ UNCHANGED << op, value, host, result, clock, uuid, node_edge_points, idx,
                    now, clockReads >>
    /\ UNCHANGED aux

\* let now = Local::now();
LinkNow ==
    /\ pc = "now"
    /\ now' = clock
    /\ clockReads' = clockReads + 1
    /\ pc' = "build"
    /\ UNCHANGED << op, value, host, result, clock, uuid, node_edge_points, idx,
                    hasher >>
    /\ UNCHANGED aux

\* The struct literal taking the host from the input when it has one.
LinkBuild_HostFromInput ==
    /\ pc = "build"
    /\ result' = Ok([host |-> Unwrap_or_default(
                                 IF IsSome(Get_str(value, "host"))
                                 THEN Get_str(value, "host") ELSE Some(host)),
                     node_edge_points |-> node_edge_points,
                     uuid |-> uuid,
                     hash |-> Hasher_finish(hasher),
                     date |-> now])
    /\ pc' = "done"
    /\ UNCHANGED << op, value, host, clock, uuid, node_edge_points, idx, hasher,
                    now, clockReads >>
    /\ UNCHANGED aux

\* The struct literal calling Local::now() again for the date.
LinkBuild_ReadsClockAgain ==
    /\ pc = "build"
    /\ result' = Ok([host |-> host,
                     node_edge_points |-> node_edge_points,
                     uuid |-> uuid,
                     hash |-> Hasher_finish(hasher),
                     date |-> clock])
    /\ clockReads' = clockReads + 1
    /\ pc' = "done"
    /\ UNCHANGED << op, value, host, clock, uuid, node_edge_points, idx, hasher,
                    now >>
    /\ UNCHANGED aux

\* The struct literal: hasher.finish() is evaluated here.
LinkBuild ==
    /\ pc = "build"
    /\ result' = Ok([host |-> host,
                     node_edge_points |-> node_edge_points,
                     uuid |-> uuid,
                     hash |-> Hasher_finish(hasher),
                     date |-> now])
    /\ pc' = "done"
    /\ UNCHANGED << op, value, host, clock, uuid, node_edge_points, idx, hasher,
                    now, clockReads >>
    /\ UNCHANGED aux

\* The caller takes the result; the call's locals are dropped.
Return ==
    /\ pc = "done"
    /\ pc' = "idle"
    /\ op' = "none"
    /\ value' = Null
    /\ host' = NoHost
    /\ result' = NoResult
    /\ uuid' = NoUuid
    /\ node_edge_points' = << >>
    /\ idx' = 0
    /\ hasher' = DefaultHasher_new
    /\ now' = 0
    /\ clockReads' = 0
    /\ UNCHANGED clock
    /\ UNCHANGED aux

\* Wall-clock time passes.
Tick ==
    /\ clock < MaxClock
    /\ clock' = clock + 1
    /\ UNCHANGED << pc, op, value, host, result, locals >>
    /\ UNCHANGED aux

Next ==
    \/ ParseAuth
    \/ ParseDevice
    \/ ParseNodeEdgePoint
    \/ LinkUuid
    \/ LinkArray
    \/ LinkElement
    \/ LinkHash
    \/ LinkNow
    \/ LinkBuild
    \/ Return
    \/ Tick

Spec == Init /\ [][Next]_vars

\* ------------------------------------------------------------------------
\* Properties
\* ------------------------------------------------------------------------
Done(name) == pc = "done" /\ op = name
HasKey(v, k) == v.t = "obj" /\ k \in DOMAIN v.m
IsStrField(v, k) == HasKey(v, k) /\ v.m[k].t = "str"

\* The 128-bit values the input texts denote, written out digit by digit.
IdNep1 == << 6,5,10,3,9,4,2,7,3,0,5,5,3,11,10,4,9,14,1,5,0,14,11,14,13,4,9,7,4,5,7,7 >>
IdNode1 == << 6,2,13,1,1,15,1,3,13,11,6,12,3,3,9,8,8,10,8,3,5,15,10,12,0,11,2,11,7,4,7,6 >>
IdNode2 == << 7,11,0,12,9,7,3,10,9,9,6,10,3,4,0,9,10,13,2,15,13,1,7,3,3,5,4,11,15,13,11,7 >>
IdLink1 == << 1,4,2,1,9,5,3,9,2,0,8,11,3,5,15,5,11,7,12,15,3,5,10,5,8,14,0,8,3,4,9,0 >>
ValidUuidTexts ==
    { TxtNep1, TxtNep1Simple, TxtNode1, TxtNode1Upper, TxtNode2Urn, TxtLink1,
      TxtLink1Braced }
ExpectedUuid(s) ==
    IF s \in { TxtNep1, TxtNep1Simple } THEN IdNep1
    ELSE IF s \in { TxtNode1, TxtNode1Upper } THEN IdNode1
    ELSE IF s = TxtNode2Urn THEN IdNode2
    ELSE IdLink1
IsUuidField(v, k) == IsStrField(v, k) /\ v.m[k].s \in ValidUuidTexts

Oauth2Errors ==
    { "Username for OAuth2 authentication not found",
      "Password for OAuth2 authentication not found",
      "Grant type for OAuth2 authentication not found",
      "Authentication URL for OAuth2 authentication not found" }
CustomErrors ==
    { "Authentication body for Custom authentication not found",
      "Authentication URL for Custom authentication not found" }
BasicErrors ==
    { "Username for Basic authentication not found",
      "Password for Basic authentication not found" }

\* A finished call either returned the variant `tag` or one of `errors`.
Attempted(tag, errors) ==
    IF result.ok THEN result.val.tag = tag ELSE result.err \in errors

\* C1: key presence selects the variant, first match wins: `grant_type`
\* present means OAuth2 is attempted whatever else is present, else
\* `auth_body` means Custom, else `username` and `password` mean BasicAuth.
AuthPrecedence ==
    (Done("auth") /\ value.t = "obj") =>
        IF HasKey(value, "grant_type") THEN Attempted("Oauth2", Oauth2Errors)
        ELSE IF HasKey(value, "auth_body") THEN Attempted("Custom", CustomErrors)
        ELSE (HasKey(value, "username") /\ HasKey(value, "password"))
                 => Attempted("BasicAuth", BasicErrors)

AuthPrecedenceWitness ==
    /\ Done("auth")
    /\ \A k \in AuthKeys : HasKey(value, k)
    /\ result.ok
    /\ result.val.tag = "Oauth2"

\* C2: once key presence has selected a variant, a field of that variant
\* that is missing or not a string makes the call fail with that field's
\* message; no other variant is tried.
AuthNoFallback ==
    (Done("auth") /\ value.t = "obj") =>
        IF HasKey(value, "grant_type")
        THEN /\ ~IsStrField(value, "username")
                  => result = Err("Username for OAuth2 authentication not found")
             /\ (IsStrField(value, "username") /\ ~IsStrField(value, "password"))
                  => result = Err("Password for OAuth2 authentication not found")
             /\ (IsStrField(value, "username") /\ IsStrField(value, "password")
                   /\ ~IsStrField(value, "grant_type"))
                  => result = Err("Grant type for OAuth2 authentication not found")
             /\ (IsStrField(value, "username") /\ IsStrField(value, "password")
                   /\ IsStrField(value, "grant_type") /\ ~IsStrField(value, "auth_url"))
                  => result = Err("Authentication URL for OAuth2 authentication not found")
        ELSE IF HasKey(value, "auth_body")
        THEN ~IsStrField(value, "auth_url")
                  => result = Err("Authentication URL for Custom authentication not found")
        ELSE (HasKey(value, "username") /\ HasKey(value, "password")) =>
             /\ ~IsStrField(value, "username")
                  => result = Err("Username for Basic authentication not found")
             /\ (IsStrField(value, "username") /\ ~IsStrField(value, "password"))
                  => result = Err("Password for Basic authentication not found")

\* `grant_type` with string `username` and `password` and an `auth_body`,
\* but no `auth_url`: later variants would be satisfied, the call fails.
AuthNoFallbackWitness ==
    /\ Done("auth")
    /\ HasKey(value, "grant_type")
    /\ HasKey(value, "auth_body")
    /\ IsStrField(value, "username")
    /\ IsStrField(value, "password")
    /\ ~HasKey(value, "auth_url")
    /\ ~result.ok

Recognizable(v) ==
    \/ HasKey(v, "grant_type")
    \/ HasKey(v, "auth_body")
    \/ (HasKey(v, "username") /\ HasKey(v, "password"))

\* C3 as stated: a descriptor comes only from an object holding
\* `grant_type`, `auth_body` or both `username` and `password`; every other
\* object fails with "unrecognized authentication type".
AuthUnrecognizedAsStated ==
    Done("auth") =>
        /\ result.ok => Recognizable(value)
        /\ value.t # "obj" => ~result.ok
        /\ (value.t = "obj" /\ ~Recognizable(value))
             => result = Err("unrecognized authentication type")

\* C3, amended: the message is "Not recognizable authentication type".
AuthUnrecognized ==
    Done("auth") =>
        /\ result.ok => Recognizable(value)
        /\ value.t # "obj" => ~result.ok
        /\ (value.t = "obj" /\ ~Recognizable(value))
             => result = Err("Not recognizable authentication type")

AuthUnrecognizedWitness ==
    /\ Done("auth")
    /\ IsStrField(value, "username")
    /\ ~HasKey(value, "password")
    /\ result = Err("Not recognizable authentication type")

\* C4: string `username` u and `password` p without `grant_type` and
\* `auth_body` give exactly BasicAuth{u, p}; other keys are ignored.
BasicAuthExact ==
    (Done("auth") /\ IsStrField(value, "username") /\ IsStrField(value, "password")
       /\ ~HasKey(value, "grant_type") /\ ~HasKey(value, "auth_body"))
    => result = Ok([tag |-> "BasicAuth",
                    body |-> [username |-> value.m["username"].s,
                              password |-> value.m["password"].s]])

BasicAuthExactWitness ==
    /\ Done("auth")
    /\ HasKey(value, "auth_url")
    /\ result.ok
    /\ result.val.tag = "BasicAuth"
    /\ result.val.body.username = TxtU
    /\ result.val.body.password = TxtP

\* What the nested Auth parse gives for the device's `auth` member.
NestedAuth == Auth_from_value(value.m["auth"])

\* C5 as stated: "host not found" when `host` is missing or not a string,
\* "auth body not found" when `auth` is missing; a nested Auth error is
\* returned unchanged, and a record only when the nested parse succeeded.
DeviceErrorsAsStated ==
    Done("device") =>
        /\ ~IsStrField(value, "host") => result = Err("host not found")
        /\ (IsStrField(value, "host") /\ ~HasKey(value, "auth"))
             => result = Err("auth body not found")
        /\ (IsStrField(value, "host") /\ HasKey(value, "auth"))
             => /\ ~NestedAuth.ok => result = NestedAuth
                /\ result.ok => NestedAuth.ok

\* C5, amended: the two messages are "Host not found" and
\* "Auth body not found".
DeviceErrors ==
    Done("device") =>
        /\ ~IsStrField(value, "host") => result = Err("Host not found")
        /\ (IsStrField(value, "host") /\ ~HasKey(value, "auth"))
             => result = Err("Auth body not found")
        /\ (IsStrField(value, "host") /\ HasKey(value, "auth"))
             => /\ ~NestedAuth.ok => result = NestedAuth
                /\ result.ok => NestedAuth.ok

\* A device whose nested OAuth2 descriptor lacks its `auth_url`.
DeviceErrorsWitness ==
    /\ Done("device")
    /\ IsStrField(value, "host")
    /\ HasKey(value, "auth")
    /\ result = Err("Authentication URL for OAuth2 authentication not found")

PortIsI64(v) ==
    /\ v.t = "num"
    /\ \/ v.k = "NegInt"
       \/ v.k = "PosInt" /\ v.mag[1] < 32768

\* C6: with a valid `host` and `auth` the parse succeeds whatever `port` is;
\* the record's port is n for a (signed) 64-bit integer n and absent when
\* `port` is missing or is not an integer.
PortNeverFails ==
    (Done("device") /\ IsStrField(value, "host") /\ HasKey(value, "auth")
       /\ NestedAuth.ok)
    => /\ result.ok
       /\ ~HasKey(value, "port") => result.val.port = None
       /\ HasKey(value, "port") =>
            LET port == value.m["port"] IN
            /\ PortIsI64(port)
                 => result.val.port = Some([neg |-> port.k = "NegInt", mag |-> port.mag])
            /\ (port.t # "num" \/ port.k = "Float") => result.val.port = None

PortNeverFailsWitness ==
    /\ Done("device")
    /\ HasKey(value, "port")
    /\ value.m["port"].t = "num"
    /\ value.m["port"].k = "Float"
    /\ result.ok
    /\ result.val.port = None

\* C7: every returned device record has a non-empty host.
DeviceHostNonEmpty ==
    (Done("device") /\ result.ok) => result.val.host # TxtEmpty

\* What NodeEdgePoint::from_value is to give for v.
ExpectedPoint(v) ==
    IF ~IsUuidField(v, "node-edge-point-uuid")
    THEN Err("Not found node edge point uuid")
    ELSE IF ~IsUuidField(v, "node-uuid") THEN Err("Not found node uuid")
    ELSE Ok([node_edge_point_uuid |-> ExpectedUuid(v.m["node-edge-point-uuid"].s),
             node_uuid |-> ExpectedUuid(v.m["node-uuid"].s)])

\* C8 as stated: success iff both fields are strings of valid UUID text,
\* giving the two UUIDs; else "not found node edge point uuid" when the
\* first field is bad and "not found node uuid" when only the second is.
NodeEdgePointAsStated ==
    Done("nep") =>
        IF ~IsUuidField(value, "node-edge-point-uuid")
        THEN result = Err("not found node edge point uuid")
        ELSE IF ~IsUuidField(value, "node-uuid")
        THEN result = Err("not found node uuid")
        ELSE result = ExpectedPoint(value)

\* C8, amended: the messages are "Not found node edge point uuid" and
\* "Not found node uuid".
NodeEdgePointParse == Done("nep") => result = ExpectedPoint(value)

\* Two equal UUIDs, one written in upper case, are accepted.
NodeEdgePointParseWitness ==
    /\ Done("nep")
    /\ result.ok
    /\ result.val.node_edge_point_uuid = result.val.node_uuid
    /\ value.m["node-edge-point-uuid"] # value.m["node-uuid"]

ElementsOf(v) == v.m["node-edge-point"].a
AllElementsValid(v) ==
    /\ HasKey(v, "node-edge-point")
    /\ v.m["node-edge-point"].t = "arr"
    /\ \A i \in 1..Len(ElementsOf(v)) : ExpectedPoint(ElementsOf(v)[i]).ok

\* C9: a valid `uuid` and an array of valid elements give a Link whose id
\* is that UUID and whose i-th point carries the i-th element's two UUIDs.
LinkOrderPreserved ==
    (Done("link") /\ IsUuidField(value, "uuid") /\ AllElementsValid(value))
    => /\ result.ok
       /\ result.val.uuid = ExpectedUuid(value.m["uuid"].s)
       /\ Len(result.val.node_edge_points) = Len(ElementsOf(value))
       /\ \A i \in 1..Len(ElementsOf(value)) :
            result.val.node_edge_points[i] = ExpectedPoint(ElementsOf(value)[i]).val

LinkOrderPreservedWitness ==
    /\ Done("link")
    /\ result.ok
    /\ HasKey(value, "administrative-state")
    /\ Len(result.val.node_edge_points) = 2
    /\ result.val.node_edge_points[1] # result.val.node_edge_points[2]
    /\ HasKey(ElementsOf(value)[2], "topology-uuid")

\* C10 as stated: without a string `uuid` of valid UUID text the Link parse
\* fails with "not found link uuid", whatever `node-edge-point` is.
LinkUuidAsStated ==
    (Done("link") /\ ~IsUuidField(value, "uuid"))
    => result = Err("not found link uuid")

\* C10, amended: the message is "Not found link uuid".
LinkUuidRequired ==
    (Done("link") /\ ~IsUuidField(value, "uuid"))
    => result = Err("Not found link uuid")

\* No `uuid`, and a `node-edge-point` array holding an invalid element.
LinkUuidRequiredWitness ==
    /\ Done("link")
    /\ ~HasKey(value, "uuid")
    /\ HasKey(value, "node-edge-point")
    /\ value.m["node-edge-point"].t = "arr"
    /\ ~AllElementsValid(value)
    /\ result = Err("Not found link uuid")

IsArrayField(v, k) == HasKey(v, k) /\ v.m[k].t = "arr"

\* C11 as stated: without an array-shaped `node-edge-point` the Link parse
\* fails with "not found node edge points list", for all inputs.
LinkArrayAsStated ==
    (Done("link") /\ ~IsArrayField(value, "node-edge-point"))
    => result = Err("not found node edge points list")

\* C11, amended: with a valid `uuid`, a missing or non-array
\* `node-edge-point` gives "Not found node edge points list".
LinkArrayRequired ==
    (Done("link") /\ IsUuidField(value, "uuid")
       /\ ~IsArrayField(value, "node-edge-point"))
    => result = Err("Not found node edge points list")

\* `node-edge-point` is a single object instead of an array.
LinkArrayRequiredWitness ==
    /\ Done("link")
    /\ IsUuidField(value, "uuid")
    /\ HasKey(value, "node-edge-point")
    /\ value.m["node-edge-point"].t = "obj"
    /\ result = Err("Not found node edge points list")

\* The lowest index of an invalid element of a `node-edge-point` array.
FirstInvalid(v) ==
    CHOOSE i \in 1..Len(ElementsOf(v)) :
        /\ ~ExpectedPoint(ElementsOf(v)[i]).ok
        /\ \A j \in 1..(i - 1) : ExpectedPoint(ElementsOf(v)[j]).ok

\* C12 as stated: an element without `node-uuid` makes the Link parse fail
\* with "not found node uuid", for all inputs.
LinkNodeUuidAsStated ==
    (Done("link") /\ IsArrayField(value, "node-edge-point")
       /\ \E i \in 1..Len(ElementsOf(value)) : ~HasKey(ElementsOf(value)[i], "node-uuid"))
    => result = Err("not found node uuid")

\* C12, amended: with a valid `uuid`, when the first invalid element of the
\* array has a valid `node-edge-point-uuid` and no `node-uuid`, the parse
\* fails with "Not found node uuid" and no Link is returned.
LinkNodeUuidRequired ==
    (Done("link") /\ IsUuidField(value, "uuid")
       /\ IsArrayField(value, "node-edge-point") /\ ~AllElementsValid(value)
       /\ IsUuidField(ElementsOf(value)[FirstInvalid(value)], "node-edge-point-uuid")
       /\ ~HasKey(ElementsOf(value)[FirstInvalid(value)], "node-uuid"))
    => result = Err("Not found node uuid")

\* The second element lacks `node-uuid`, the first one is valid.
LinkNodeUuidRequiredWitness ==
    /\ Done("link")
    /\ IsArrayField(value, "node-edge-point")
    /\ Len(ElementsOf(value)) = 2
    /\ ExpectedPoint(ElementsOf(value)[1]).ok
    /\ ~HasKey(ElementsOf(value)[2], "node-uuid")
    /\ result = Err("Not found node uuid")

\* C13: with a valid `uuid` and an array holding invalid elements, the
\* result is the error of the lowest-index invalid element, unchanged; later
\* errors are not reported and no Link is returned.
LinkFirstError ==
    (Done("link") /\ IsUuidField(value, "uuid")
       /\ IsArrayField(value, "node-edge-point") /\ ~AllElementsValid(value))
    => result = ExpectedPoint(ElementsOf(value)[FirstInvalid(value)])

\* Two invalid elements with different errors: the first one's is returned.
LinkFirstErrorWitness ==
    /\ Done("link")
    /\ IsArrayField(value, "node-edge-point")
    /\ Len(ElementsOf(value)) = 2
    /\ ExpectedPoint(ElementsOf(value)[1]) = Err("Not found node uuid")
    /\ ExpectedPoint(ElementsOf(value)[2]) = Err("Not found node edge point uuid")
    /\ result = Err("Not found node uuid")

\* C14: the host of a returned Link is the caller's label, never the
\* input's own `host` member.
LinkHostIsLabel ==
    (Done("link") /\ result.ok) => result.val.host = host

LinkHostIsLabelWitness ==
    /\ Done("link")
    /\ result.ok
    /\ IsStrField(value, "host")
    /\ value.m["host"].s # host
    /\ result.val.host = host

\* The bytes the hasher holds once the serialized input has been written.
WrittenInput == Hash_str(DefaultHasher_new, To_string(value))

\* A successful Link call reads the clock once, a failing one never.
ClockReadCount ==
    Done("link") => clockReads = (IF result.ok THEN 1 ELSE 0)

\* C19 as stated: the clock is read once per successful Link call and not
\* in a failing one, and the read comes after the hash value has been
\* obtained from the hasher (which happens where the record is built).
ClockAfterFinishAsStated ==
    /\ []ClockReadCount
    /\ [][clockReads' > clockReads => (pc = "done" /\ result.ok)]_vars

\* C19, amended: the clock is read once per successful Link call and not in
\* a failing one; the read comes after the serialized input has been written
\* to the hasher and before hasher.finish() gives the hash value.
ClockAfterHashWrite ==
    /\ []ClockReadCount
    /\ [][clockReads' > clockReads
            => (hasher = WrittenInput /\ now' = clock /\ pc' = "build")]_vars
    /\ [][(pc = "build" /\ pc' = "done")
            => (clockReads = 1 /\ result'.val.hash = Hasher_finish(WrittenInput))]_vars

\* The clock has been read, the input is in the hasher, finish() is to come.
ClockAfterHashWriteWitness ==
    /\ pc = "build"
    /\ op = "link"
    /\ clockReads = 1
    /\ hasher = WrittenInput
    /\ now = clock
    /\ ~result.ok

\* ------------------------------------------------------------------------
\* Two Link calls compared
\* ------------------------------------------------------------------------

\* Inputs on which Link::from_value succeeds.
Parses(v) == IsUuidField(v, "uuid") /\ AllElementsValid(v)

\* Two inputs that agree in every member the Link models: the same `uuid`
\* and, element by element, the same two UUIDs.
SameModelled(a, b) ==
    /\ Parses(a)
    /\ Parses(b)
    /\ ExpectedUuid(a.m["uuid"].s) = ExpectedUuid(b.m["uuid"].s)
    /\ Len(ElementsOf(a)) = Len(ElementsOf(b))
    /\ \A i \in 1..Len(ElementsOf(a)) :
         ExpectedPoint(ElementsOf(a)[i]) = ExpectedPoint(ElementsOf(b)[i])

\* The caller keeps the Link of a finished call.
Remember ==
    /\ pc = "done"
    /\ op = "link"
    /\ result.ok
    /\ ~prev.set
    /\ prev' = [set |-> TRUE, value |-> value, link |-> result.val]
    /\ pc' = "idle"
    /\ op' = "none"
    /\ value' = Null
    /\ host' = NoHost
    /\ result' = NoResult
    /\ uuid' = NoUuid
    /\ node_edge_points' = << >>
    /\ idx' = 0
    /\ hasher' = DefaultHasher_new
    /\ now' = 0
    /\ clockReads' = 0
    /\ UNCHANGED << clock, parked, wire >>

\* The inputs of the kept call: they parse, have at most MaxKeptElems
\* elements and no `host` member, and any `administrative-state` is the
\* first of the two texts.
KeptInputs ==
    { v \in LinkInputs :
        /\ Parses(v)
        /\ Len(ElementsOf(v)) <= MaxKeptElems
        /\ ~HasKey(v, "host")
        /\ HasKey(v, "administrative-state")
             => v.m["administrative-state"] = Str(TxtState) }

\* The first call.
LinkFirst == ~prev.set /\ value' \in KeptInputs /\ LinkUuid

\* For each kept input, the inputs that agree with it in every member the
\* Link models: itself among them.
Variants == [k \in KeptInputs |-> { v \in LinkInputs : SameModelled(k, v) }]

\* A later call with any host label, on the kept input or on one that
\* differs from it only in members the Link does not model.
LinkAgain == prev.set /\ value' \in Variants[prev.value] /\ LinkUuid

NextRepeat ==
    \/ LinkFirst
    \/ LinkAgain
    \/ LinkArray
    \/ LinkElement
    \/ LinkHash
    \/ LinkNow
    \/ LinkBuild
    \/ Return
    \/ Remember
    \/ Tick

SpecRepeat == Init /\ [][NextRepeat]_vars

\* A Link call that succeeded after an earlier one was kept.
Repeated == Done("link") /\ result.ok /\ prev.set

\* C15: two successful Link calls on the same input give the same hash,
\* whatever the host labels and the times of the calls; the timestamp is the
\* clock value read in the call.
RepeatSameHash ==
    /\ [](Repeated /\ value = prev.value
            => /\ result.val.hash = prev.link.hash
               /\ result.val.date = now)
    /\ [][clockReads' > clockReads => now' = clock]_vars

\* The same input under another host label at a later time.
RepeatSameHashWitness ==
    /\ Repeated
    /\ value = prev.value
    /\ host # prev.link.host
    /\ result.val.hash = prev.link.hash
    /\ result.val.date # prev.link.date

\* C16: two inputs that differ only in members the Link does not model give
\* Links with the same id and the same points and with different hashes.
HashCoversWholeInput ==
    (Repeated /\ value # prev.value /\ SameModelled(prev.value, value))
    => /\ result.val.uuid = prev.link.uuid
       /\ result.val.node_edge_points = prev.link.node_edge_points
       /\ result.val.hash # prev.link.hash

\* The inputs differ in an element's `topology-uuid` and in nothing else.
HashCoversWholeInputWitness ==
    /\ Repeated
    /\ ElementsOf(value) # ElementsOf(prev.value)
    /\ [value.m EXCEPT !["node-edge-point"] = prev.value.m["node-edge-point"]]
         = prev.value.m
    /\ result.val.node_edge_points = prev.link.node_edge_points
    /\ result.val.hash # prev.link.hash

\* ------------------------------------------------------------------------
\* A Link serialized and deserialized
\* ------------------------------------------------------------------------

\* The caller serializes the Link it was returned.
Serialize ==
    /\ pc = "done"
    /\ op = "link"
    /\ result.ok
    /\ ~wire.set
    /\ wire' = [set |-> TRUE, doc |-> Link_serialize(result.val), back |-> NoResult]
    /\ UNCHANGED << pc, op, value, host, result, clock, prev, parked >>
    /\ UNCHANGED locals

\* The caller deserializes a Link from what it serialized.
Deserialize ==
    /\ wire.set
    /\ wire.back = NoResult
    /\ wire' = [wire EXCEPT !.back = Link_deserialize(wire.doc)]
    /\ UNCHANGED << pc, op, value, host, result, clock, prev, parked >>
    /\ UNCHANGED locals

\* The caller drops the call's result and what it made of it.
Discard ==
    /\ pc = "done"
    /\ pc' = "idle"
    /\ op' = "none"
    /\ value' = Null
    /\ host' = NoHost
    /\ result' = NoResult
    /\ uuid' = NoUuid
    /\ node_edge_points' = << >>
    /\ idx' = 0
    /\ hasher' = DefaultHasher_new
    /\ now' = 0
    /\ clockReads' = 0
    /\ wire' = NoWire
    /\ UNCHANGED << clock, prev, parked >>

NextWire ==
    \/ LinkUuid
    \/ LinkArray
    \/ LinkElement
    \/ LinkHash
    \/ LinkNow
    \/ LinkBuild
    \/ Serialize
    \/ Deserialize
    \/ Discard
    \/ Tick

SpecWire == Init /\ [][NextWire]_vars

\* The names of a document's fields, in the order written.
KeysOf(d) == [i \in 1..Len(d.fields) |-> d.fields[i].key]

\* The member of a document written under `key`.
Member(d, key) == (CHOOSE f \in { d.fields[i] : i \in 1..Len(d.fields) } : f.key = key).val

\* C17: deserializing a serialized Link gives back the Link, equal in host,
\* node_edge_points (in order), uuid, hash and date.
LinkRoundTrip ==
    (wire.set /\ wire.back # NoResult)
    => /\ wire.back.ok
       /\ wire.back.val.host = result.val.host
       /\ wire.back.val.node_edge_points = result.val.node_edge_points
       /\ wire.back.val.uuid = result.val.uuid
       /\ wire.back.val.hash = result.val.hash
       /\ wire.back.val.date = result.val.date

\* A Link of two different points, made after the clock moved, came back.
LinkRoundTripWitness ==
    /\ wire.set
    /\ wire.back = Ok(result.val)
    /\ Len(result.val.node_edge_points) = 2
    /\ result.val.node_edge_points[1] # result.val.node_edge_points[2]
    /\ result.val.date > 0

\* C18: a serialized Link has exactly the keys `node-edge-point`, `uuid`,
\* `hash`, `date`, in that order, and each of its elements exactly the keys
\* `node-edge-point-uuid` and `node-uuid`.
LinkKeysAsStated ==
    wire.set
    => /\ KeysOf(wire.doc) = << "node-edge-point", "uuid", "hash", "date" >>
       /\ \A i \in 1..Len(Member(wire.doc, "node-edge-point").a) :
            KeysOf(Member(wire.doc, "node-edge-point").a[i])
              = << "node-edge-point-uuid", "node-uuid" >>

\* ------------------------------------------------------------------------
\* Two threads calling the parsers
\* ------------------------------------------------------------------------

\* The call of the running thread.
Running ==
    Context(pc, op, value, host, result, uuid, node_edge_points, idx, hasher,
            now, clockReads)

\* The scheduler with one hasher for both threads.
Switch_SharedHasher ==
    /\ pc' = parked.pc
    /\ op' = parked.op
    /\ value' = parked.value
    /\ host' = parked.host
    /\ result' = parked.result
    /\ uuid' = parked.uuid
    /\ node_edge_points' = parked.node_edge_points
    /\ idx' = parked.idx
    /\ hasher' = hasher
    /\ now' = parked.now
    /\ clockReads' = parked.clockReads
    /\ parked' = Running
    /\ UNCHANGED << clock, prev, wire >>

\* The scheduler runs the other thread: each thread has its own arguments,
\* locals and result; only the wall clock is common to both.
Switch ==
    /\ pc' = parked.pc
    /\ op' = parked.op
    /\ value' = parked.value
    /\ host' = parked.host
    /\ result' = parked.result
    /\ uuid' = parked.uuid
    /\ node_edge_points' = parked.node_edge_points
    /\ idx' = parked.idx
    /\ hasher' = parked.hasher
    /\ now' = parked.now
    /\ clockReads' = parked.clockReads
    /\ parked' = Running
    /\ UNCHANGED << clock, prev, wire >>

\* The arguments the two threads call with.
ConcAuthInputs ==
    { v \in AuthInputs : v.t = "obj" /\ DOMAIN v.m = { "username", "password" } }
ConcDeviceInputs ==
    { v \in DeviceInputs :
        /\ v.t = "obj"
        /\ DOMAIN v.m = { "host", "auth" }
        /\ v.m["auth"] \in ConcAuthInputs }
ConcNepInputs ==
    { v \in NepInputs :
        /\ v.t = "obj"
        /\ DOMAIN v.m = { "node-edge-point-uuid", "node-uuid" }
        /\ v.m["node-edge-point-uuid"] = Str(TxtNep1)
        /\ v.m["node-uuid"] \in { Str(TxtNode1), Str(TxtShort), Null } }
ConcLinkInputs ==
    { v \in LinkInputs :
        /\ v.t = "obj"
        /\ DOMAIN v.m \in { { "uuid", "node-edge-point" }, { "node-edge-point" } }
        /\ v.m["node-edge-point"].t = "arr"
        /\ Len(v.m["node-edge-point"].a) <= 1
        /\ HasKey(v, "uuid") => v.m["uuid"] = Str(TxtLink1Braced) }

AuthCall == value' \in ConcAuthInputs /\ ParseAuth
DeviceCall == value' \in ConcDeviceInputs /\ ParseDevice
NodeEdgePointCall == value' \in ConcNepInputs /\ ParseNodeEdgePoint
LinkCall == value' \in ConcLinkInputs /\ LinkUuid

NextConc ==
    \/ AuthCall
    \/ DeviceCall
    \/ NodeEdgePointCall
    \/ LinkCall
    \/ LinkArray
    \/ LinkElement
    \/ LinkHash
    \/ LinkNow
    \/ LinkBuild
    \/ Return
    \/ Switch
    \/ Tick

SpecConc == Init /\ [][NextConc]_vars

\* What Link::from_value returns for v and h when run alone, its date left out.
AloneLink(v, h) ==
    IF ~IsUuidField(v, "uuid") THEN Err("Not found link uuid")
    ELSE IF ~IsArrayField(v, "node-edge-point")
    THEN Err("Not found node edge points list")
    ELSE IF ~AllElementsValid(v)
    THEN ExpectedPoint(ElementsOf(v)[FirstInvalid(v)])
    ELSE Ok([host |-> h,
             node_edge_points |->
               [i \in 1..Len(ElementsOf(v)) |-> ExpectedPoint(ElementsOf(v)[i]).val],
             uuid |-> ExpectedUuid(v.m["uuid"].s),
             hash |-> Hasher_finish(Hash_str(DefaultHasher_new, To_string(v)))])

WithoutDate(r) ==
    IF r.ok THEN Ok([k \in DOMAIN r.val \ { "date" } |-> r.val[k]]) ELSE r

\* A finished call holds what the same call returns when run alone.
AsAlone(c) ==
    c.pc = "done"
    => IF c.op = "link" THEN WithoutDate(c.result) = AloneLink(c.value, c.host)
       ELSE IF c.op = "auth" THEN c.result = Auth_from_value(c.value)
       ELSE IF c.op = "device" THEN c.result = Device_from_value(c.value)
       ELSE c.result = NodeEdgePoint_from_value(c.value)

\* C20: under every interleaving of two threads' calls, each finished call
\* holds the result of the same call run alone (a Link's date aside); a
\* thread's call is never changed by the other thread's steps; a call's
\* arguments stay as passed until it returns.
CallsIndependent ==
    /\ [](AsAlone(Running) /\ AsAlone(parked))
    /\ [][parked' # parked => (parked' = Running /\ Running' = parked)]_vars
    /\ [][(pc \notin { "idle", "done" } /\ parked' = parked)
            => (value' = value /\ host' = host)]_vars

\* A Link call that read the clock, was suspended while the other thread's
\* Link call on another input read it later, and then finished first.
CallsIndependentWitness ==
    /\ Done("link")
    /\ result.ok
    /\ parked.op = "link"
    /\ parked.pc = "build"
    /\ parked.value # value
    /\ now < parked.now

====
